---- MODULE Spec2Model ----
(***************************************************************************)
(* Model of the banshee pipeline wiring and shutdown (src/src/main.rs) and *)
(* of the configuration handle (src/src/config.rs).                        *)
(*                                                                         *)
(* main creates the configuration, the logger, one oneshot channel and     *)
(* four bounded mpsc channels, launches the five stages, registers the     *)
(* SIGINT iterator, spawns the stop handler task and awaits it.  The       *)
(* stage modules (input, collector, processor, inference, output) are      *)
(* declared in main.rs but their bodies are not part of the sources; their *)
(* task loops are modelled from the specification (sections 4.1-4.6, 5, 7).*)
(***************************************************************************)
EXTENDS Naturals, Sequences, FiniteSets

\* ------------------------------------------------------------------ bounds

\* Number of fragments the Input stage may produce in one run.
MaxFrags == 2

\* Number of SIGINT deliveries by the operator in one run.
MaxTriggers == 2

\* Number of peer endpoints the configuration file may list.
MaxPeers == 2

\* Buffer size of every inter-stage channel.  main.rs:57-63 create the
\* channels with channel::<T>(100); the model checks a scaled-down buffer.
Capacity == 2

\* ------------------------------------------------------------- vocabulary

\* Stages in pipeline order (main.rs:66-70).
input == 1
collector == 2
processor == 3
inference == 4
output == 5
Stages == 1..5
Downstream == 2..5

\* Inter-stage channels, named after their senders (main.rs:57-63).
\* Channel c carries messages from stage c to stage c + 1.
tx_frag == 1
tx_sess == 2
tx_smpl == 3
tx_rslt == 4
Channels == 1..4

\* The Stop variant of data::Fragment, data::Session, data::FinalSample and
\* data::StoredResult (main.rs:79-82).  Data variants are 1..MaxFrags: the
\* identity of the fragment the payload derives from.
Stop == 0

\* No configuration object.
NoCfg == 0

\* Order of the sends of the stop handler (main.rs:78-82).
StopOrder == <<"tx_stop", "tx_frag", "tx_sess", "tx_smpl", "tx_rslt">>

\* Variant of LaunchPc that starts with the collector.
LaunchPcCollectorFirst == <<"launchCollector", "launchInput", "launchProcessor",
                            "launchInference", "launchOutput", "signals">>

\* Positions of main while it launches the stages (main.rs:66-70).
LaunchPc == <<"launchInput", "launchCollector", "launchProcessor",
              "launchInference", "launchOutput", "signals">>

VARIABLES
    mainPc,          \* position of main (main.rs:40-89)
    cfgCount,        \* number of Config objects created so far
    cfg_inst,        \* the handle main holds (main.rs:45)
    loggerCfg,       \* the handle logger::init was given (main.rs:48)
    stageCfg,        \* the handle each stage was launched with (main.rs:66-70)
    cfgFile,         \* the peer list written in the configuration file
    corePeers,       \* the peer list held by ConfigCore (config.rs:21)
    rwLock,          \* state of Config.core's RwLock (config.rs:21)
    peersPc,         \* position of each stage's call of Config::peers
    peersRes,        \* the lists Config::peers has returned to each stage
    stPc,            \* position of each stage task
    held,            \* the data message a stage is processing
    gotStop,         \* the stage received Stop (Input: the stop request)
    stalled,         \* the stage that stopped making progress, or 0
    chan,            \* buffered messages of each inter-stage channel
    rxAlive,         \* the receiver of the channel has not been dropped
    senders,         \* live senders of the channel: "coord", "stage"
    oneShot,         \* oneshot channel: "none", "open", "sent", "closed"
    rx_stop,         \* the oneshot receiver has not been dropped
    hPc,             \* position of the stop handler task (main.rs:74-85)
    hLog,            \* sends the stop handler has completed, in order
    hRes,            \* the result of each of those sends: TRUE for Ok
    sigPending,      \* SIGINTs delivered and not yet yielded by the iterator
    trigCount,       \* SIGINTs delivered so far
    produced,        \* fragments produced by Input so far
    sentOk,          \* per channel: messages whose send returned Ok
    rcvd,            \* per channel: messages the consumer received
    outDone,         \* payloads Output has written to the sink
    queuedAtTrigger  \* payloads queued behind Collector at the first trigger
                     \* (recorded under SnapSpec only)

vars == <<mainPc, cfgCount, cfg_inst, loggerCfg, stageCfg, cfgFile, corePeers,
          rwLock, peersPc, peersRes, stPc, held, gotStop,
          stalled, chan, rxAlive, senders, oneShot, rx_stop, hPc, hLog,
          hRes, sigPending, trigCount, produced, sentOk, rcvd, outDone,
          queuedAtTrigger>>

lockVars == <<cfgFile, corePeers, rwLock, peersPc, peersRes>>
cfgVars == <<cfgCount, cfg_inst, loggerCfg, stageCfg, lockVars>>
stageVars == <<stPc, held, gotStop, stalled, produced, outDone>>
chanVars == <<chan, rxAlive, senders, sentOk, rcvd>>
oneVars == <<oneShot, rx_stop>>
handlerVars == <<hPc, hLog, hRes>>
sigVars == <<sigPending, trigCount, queuedAtTrigger>>

\* ------------------------------------------------------------------- Init

\* The peer lists a configuration file may hold, and the one of the default
\* file banshee.ini (config.rs:33).
PeerLists == {[i \in 1..n |-> i] : n \in 0..MaxPeers}
DefaultPeers == <<1>>

\* An RwLock nobody holds.
RwLockNew == [readers |-> 0, writer |-> FALSE]

InitWith(file) ==
    /\ mainPc = "config"
    /\ cfgFile = file
    /\ corePeers = <<>>
    /\ rwLock = RwLockNew
    /\ peersPc = [s \in Stages |-> "idle"]
    /\ peersRes = [s \in Stages |-> {}]
    /\ cfgCount = 0
    /\ cfg_inst = NoCfg
    /\ loggerCfg = NoCfg
    /\ stageCfg = [s \in Stages |-> NoCfg]
    /\ stPc = [s \in Stages |-> "none"]
    /\ held = [s \in Stages |-> Stop]
    /\ gotStop = [s \in Stages |-> FALSE]
    /\ stalled = 0
    /\ chan = [c \in Channels |-> <<>>]
    /\ rxAlive = [c \in Channels |-> FALSE]
    /\ senders = [c \in Channels |-> {}]
    /\ oneShot = "none"
    /\ rx_stop = FALSE
    /\ hPc = "none"
    /\ hLog = <<>>
    /\ hRes = <<>>
    /\ sigPending = 0
    /\ trigCount = 0
    /\ produced = 0
    /\ sentOk = [c \in Channels |-> <<>>]
    /\ rcvd = [c \in Channels |-> <<>>]
    /\ outDone = {}
    /\ queuedAtTrigger = {}

Init == InitWith(DefaultPeers)

\* The same start, for any content of the configuration file.
InitCfg == \E file \in PeerLists : InitWith(file)

\* ------------------------------------------------------------- config.rs

\* Config::new: builds one more configuration object and returns the shared
\* handle to it (config.rs:31-42).  Handles are the object's number.
ConfigNew(n) == n + 1

\* SharedConfig::clone: another handle to the same object (Arc::clone).
ConfigClone(h) == h

\* ------------------------------------------------------------------- main

\* ConfigCore::new(pathname): the peer list read from the file
\* (config.rs:35; the endpoint registry of spec 2).
ConfigCoreNew(file) == file

\* main.rs:45  let cfg_inst = Config::new();  -- the core is built from the
\* file and put behind a new RwLock (config.rs:35-41).
MainConfig ==
    /\ mainPc = "config"
    /\ cfgCount' = ConfigNew(cfgCount)
    /\ cfg_inst' = ConfigNew(cfgCount)
    /\ corePeers' = ConfigCoreNew(cfgFile)
    /\ rwLock' = RwLockNew
    /\ mainPc' = "logger"
    /\ UNCHANGED <<loggerCfg, stageCfg, cfgFile, peersPc, peersRes, stageVars, chanVars, oneVars,
                   handlerVars, sigVars>>

\* main.rs:48  logger::init(cfg_inst.clone());
MainLogger ==
    /\ mainPc = "logger"
    /\ loggerCfg' = ConfigClone(cfg_inst)
    /\ mainPc' = "channels"
    /\ UNCHANGED <<cfgCount, cfg_inst, stageCfg, lockVars, stageVars, chanVars,
                   oneVars, handlerVars, sigVars>>

\* main.rs:53-63  the oneshot channel and the four bounded channels; every
\* sender and receiver is held by the subsystems future until it is moved.
MainChannels ==
    /\ mainPc = "channels"
    /\ oneShot' = "open"
    /\ rx_stop' = TRUE
    /\ chan' = [c \in Channels |-> <<>>]
    /\ rxAlive' = [c \in Channels |-> TRUE]
    /\ senders' = [c \in Channels |-> {"coord"}]
    /\ mainPc' = "launchInput"
    /\ UNCHANGED <<cfgVars, stageVars, sentOk, rcvd, handlerVars, sigVars>>

\* ----------------------------------------------------- tokio::sync::mpsc

\* Sender::send(..).await can complete: there is room in the buffer, or the
\* receiver is gone and the send returns Err at once.  Otherwise the sender
\* stays suspended (main.rs:57-63, bounded channel).
SendReady(c) == ~rxAlive[c] \/ Len(chan[c]) < Capacity

\* The per-channel sequences after a completed send of m on c: the message
\* is appended at the tail when the receiver is alive, dropped with Err
\* otherwise.
AfterSend(qs, c, m) == IF rxAlive[c] THEN [qs EXCEPT ![c] = Append(@, m)] ELSE qs

\* Variant of ChanRecv that hands out the newest message first.
ChanRecvLifo(q) == [msg |-> q[Len(q)], rest |-> SubSeq(q, 1, Len(q) - 1)]

\* Receiver::recv on a non-empty buffer: the oldest message and the rest.
ChanRecv(q) == [msg |-> Head(q), rest |-> Tail(q)]

\* Receiver::recv can complete: a message is buffered, or the channel is
\* closed (every sender dropped) and recv returns None.
RecvReady(c) == chan[c] # <<>> \/ senders[c] = {}

\* Data payloads of a message sequence.
DataOf(q) == {q[i] : i \in {j \in 1..Len(q) : q[j] # Stop}}

\* ---------------------------------------------------------- main, cont.

\* Variant of LaunchCfg that builds a configuration of its own per stage.
LaunchCfgFresh(s) == ConfigNew(cfgCount)

\* The configuration handle a stage is launched with: cfg_inst.clone().
LaunchCfg(s) == ConfigClone(cfg_inst)

\* main.rs:66-70  <stage>::run(cfg_inst.clone(), rx, tx.clone()).await;
\* the call returns once the stage task is running: the receiver is moved
\* into the task, with a clone of the sender of the next channel.
MainLaunch(s) ==
    /\ mainPc = LaunchPc[s]
    /\ stageCfg' = [stageCfg EXCEPT ![s] = LaunchCfg(s)]
    /\ stPc' = [stPc EXCEPT ![s] = "recv"]
    /\ senders' = [c \in Channels |->
                     IF c = s THEN senders[c] \cup {"stage"} ELSE senders[c]]
    /\ mainPc' = LaunchPc[s + 1]
    /\ UNCHANGED <<cfgCount, cfg_inst, loggerCfg, lockVars, held, gotStop, stalled,
                   produced, outDone, chan, rxAlive, sentOk, rcvd, oneVars,
                   handlerVars, sigVars>>

\* main.rs:73-74  platform::get_system_signals() registers SIGINT, then
\* tokio::spawn moves signals, tx_stop and the four senders into the stop
\* handler task, which blocks in signals.forever().
MainSpawn ==
    /\ mainPc = "signals"
    /\ hPc' = "wait"
    /\ mainPc' = "await"
    /\ UNCHANGED <<cfgVars, stageVars, chanVars, oneVars, hLog, hRes, sigVars>>

\* main.rs:85-89  the JoinHandle of the stop handler resolves, subsystems
\* completes and main returns: the runtime is dropped, which drops every
\* task that has not finished at its suspension point.
MainReturn ==
    /\ mainPc = "await"
    /\ hPc = "done"
    /\ mainPc' = "done"
    /\ stPc' = [s \in Stages |-> IF stPc[s] = "exited" THEN "exited" ELSE "killed"]
    /\ UNCHANGED <<cfgVars, held, gotStop, stalled, produced, outDone, chanVars,
                   oneVars, handlerVars, sigVars>>

\* ------------------------------------------------------------ the operator

\* One SIGINT is delivered to the process while the handler is registered
\* (main.rs:98-101); the Signals iterator yields one value per signal.
\* q is the new value of the record of what was queued at the first trigger.
Deliver(q) ==
    /\ mainPc = "await"
    /\ trigCount < MaxTriggers
    /\ trigCount' = trigCount + 1
    /\ sigPending' = sigPending + 1
    /\ queuedAtTrigger' = q
    /\ UNCHANGED <<mainPc, cfgVars, stageVars, chanVars, oneVars, handlerVars>>

Trigger == Deliver(queuedAtTrigger)

\* The same delivery, which at the first trigger also records the payloads
\* queued in the Session, FinalSample and StoredResult channels.
TriggerSnap ==
    Deliver(IF trigCount = 0
            THEN DataOf(chan[tx_sess]) \cup DataOf(chan[tx_smpl])
                   \cup DataOf(chan[tx_rslt])
            ELSE queuedAtTrigger)

\* ------------------------------------------------------- the stop handler

\* main.rs:75-76  for _ in signals.forever(): the iterator yields.
HandlerWake ==
    /\ hPc = "wait"
    /\ sigPending > 0
    /\ sigPending' = sigPending - 1
    /\ hPc' = "tx_stop"
    /\ UNCHANGED <<mainPc, cfgVars, stageVars, chanVars, oneVars, hLog, hRes,
                   trigCount, queuedAtTrigger>>

\* Variant of HandlerAfter with the Session channel stopped before the
\* Fragment channel.
HandlerAfterSwapped(p) ==
    CASE p = "tx_stop" -> "tx_sess"
      [] p = "tx_sess" -> "tx_frag"
      [] p = "tx_frag" -> "tx_smpl"
      [] p = "tx_smpl" -> "tx_rslt"
      [] p = "tx_rslt" -> "done"

\* Variant of HandlerAfter without the break: the loop takes the next signal.
HandlerAfterLoop(p) ==
    CASE p = "tx_stop" -> "tx_frag"
      [] p = "tx_frag" -> "tx_sess"
      [] p = "tx_sess" -> "tx_smpl"
      [] p = "tx_smpl" -> "tx_rslt"
      [] p = "tx_rslt" -> "wait"

\* Position of the handler after its send at position p has completed
\* (main.rs:78-83); after the last one the loop breaks and the task ends.
HandlerAfter(p) ==
    CASE p = "tx_stop" -> "tx_frag"
      [] p = "tx_frag" -> "tx_sess"
      [] p = "tx_sess" -> "tx_smpl"
      [] p = "tx_smpl" -> "tx_rslt"
      [] p = "tx_rslt" -> "done"

\* The channel the handler sends on at position p (main.rs:79-82).
HandlerChan(p) ==
    CASE p = "tx_frag" -> tx_frag
      [] p = "tx_sess" -> tx_sess
      [] p = "tx_smpl" -> tx_smpl
      [] p = "tx_rslt" -> tx_rslt

\* Variant of OneShotSend that drops the sender without sending.
OneShotDropped(alive) == "closed"

\* The oneshot channel after tx_stop.send(()): the value is stored when the
\* receiver is alive; the sender is consumed either way.
OneShotSend(alive) == IF alive THEN "sent" ELSE "closed"

\* Variant of HandlerOnResult that unwraps the result of the send.
HandlerOnResultUnwrap(ok, p) == IF ok THEN HandlerAfter(p) ELSE "panicked"

\* Position of the handler once its send at position p has returned ok or
\* an error: let _ = discards the result (main.rs:78-82).
HandlerOnResult(ok, p) == HandlerAfter(p)

\* Variant of CoordSenders that gives up each sender with its send.
CoordSendersDropEach(p) ==
    [c \in Channels |-> IF c = HandlerChan(p) THEN senders[c] \ {"coord"}
                        ELSE senders[c]]

\* The live senders once the handler's send at position p has completed:
\* the task owns tx_frag, tx_sess, tx_smpl and tx_rslt until it ends
\* (main.rs:74-85).
CoordSenders(p) ==
    IF HandlerAfter(p) = "done"
    THEN [c \in Channels |-> senders[c] \ {"coord"}]
    ELSE senders

\* main.rs:78  let _ = tx_stop.send(());  -- never suspends, result ignored.
HandlerStopInput ==
    /\ hPc = "tx_stop"
    /\ oneShot' = OneShotSend(rx_stop)
    /\ hLog' = Append(hLog, "tx_stop")
    /\ hRes' = Append(hRes, rx_stop)
    /\ hPc' = HandlerOnResult(rx_stop, "tx_stop")
    /\ UNCHANGED <<mainPc, cfgVars, stageVars, chanVars, rx_stop, sigVars>>

\* main.rs:79-85  let _ = tx_X.send(X::Stop).await;  -- suspends while the
\* buffer is full, the result is ignored.  After the last send the loop
\* breaks, the task ends and the senders it owns are dropped.
HandlerSend ==
    /\ hPc \in {"tx_frag", "tx_sess", "tx_smpl", "tx_rslt"}
    /\ SendReady(HandlerChan(hPc))
    /\ chan' = AfterSend(chan, HandlerChan(hPc), Stop)
    /\ sentOk' = AfterSend(sentOk, HandlerChan(hPc), Stop)
    /\ hLog' = Append(hLog, hPc)
    /\ hRes' = Append(hRes, rxAlive[HandlerChan(hPc)])
    /\ hPc' = HandlerOnResult(rxAlive[HandlerChan(hPc)], hPc)
    /\ senders' = CoordSenders(hPc)
    /\ UNCHANGED <<mainPc, cfgVars, stageVars, rxAlive, rcvd, oneVars, sigVars>>

\* ------------------------------------------------------------------ stages
\* The stage task loops (spec 4.1-4.6, 5, 7).

\* The task of stage s ends: its receiver is dropped, which discards what
\* is still buffered, and its clone of the next sender is dropped.
ExitChan(qs, s) == IF s \in Downstream THEN [qs EXCEPT ![s - 1] = <<>>] ELSE qs
ExitRx(s) == IF s \in Downstream THEN [rxAlive EXCEPT ![s - 1] = FALSE] ELSE rxAlive
ExitTx(s) == [c \in Channels |-> IF c = s THEN senders[c] \ {"stage"} ELSE senders[c]]

\* Input (4.1): decode one more fragment and push it downstream, in arrival
\* order; the send suspends while the Fragment channel is full.
InputEmit ==
    /\ stPc[input] = "recv"
    /\ stalled # input
    /\ produced < MaxFrags
    /\ SendReady(tx_frag)
    /\ produced' = produced + 1
    /\ chan' = AfterSend(chan, tx_frag, produced + 1)
    /\ sentOk' = AfterSend(sentOk, tx_frag, produced + 1)
    /\ UNCHANGED <<mainPc, cfgVars, stPc, held, gotStop, stalled, outDone,
                   rxAlive, senders, rcvd, oneVars, handlerVars, sigVars>>

\* Input (4.1): the oneshot receiver resolves.  With the stop request Input
\* stops accepting input and goes on to forward Stop; with the sender
\* dropped unsent (channel closure, 7) the task loop ends.
InputStop ==
    /\ stPc[input] = "recv"
    /\ stalled # input
    /\ oneShot \in {"sent", "closed"}
    /\ IF oneShot = "sent"
       THEN /\ gotStop' = [gotStop EXCEPT ![input] = TRUE]
            /\ stPc' = [stPc EXCEPT ![input] = "fwdStop"]
            /\ UNCHANGED <<senders, rx_stop>>
       ELSE /\ stPc' = [stPc EXCEPT ![input] = "exited"]
            /\ senders' = ExitTx(input)
            /\ rx_stop' = FALSE
            /\ UNCHANGED gotStop
    /\ UNCHANGED <<mainPc, cfgVars, held, stalled, produced, outDone, chan,
                   rxAlive, sentOk, rcvd, oneShot, handlerVars, sigVars>>

\* A downstream stage receives from its input channel (4.2-4.6, 5): a data
\* message is taken for processing, a Stop ends the loop; a closed and
\* empty channel ends the task (7).
StageRecv(s) ==
    /\ stPc[s] = "recv"
    /\ stalled # s
    /\ RecvReady(s - 1)
    /\ IF chan[s - 1] # <<>>
       THEN LET r == ChanRecv(chan[s - 1]) IN
            /\ chan' = [chan EXCEPT ![s - 1] = r.rest]
            /\ rcvd' = [rcvd EXCEPT ![s - 1] = Append(@, r.msg)]
            /\ IF r.msg = Stop
               THEN /\ gotStop' = [gotStop EXCEPT ![s] = TRUE]
                    /\ stPc' = [stPc EXCEPT ![s] = "fwdStop"]
                    /\ UNCHANGED held
               ELSE /\ held' = [held EXCEPT ![s] = r.msg]
                    /\ stPc' = [stPc EXCEPT ![s] = "proc"]
                    /\ UNCHANGED gotStop
            /\ UNCHANGED <<rxAlive, senders>>
       ELSE /\ stPc' = [stPc EXCEPT ![s] = "exited"]
            /\ chan' = ExitChan(chan, s)
            /\ rxAlive' = ExitRx(s)
            /\ senders' = ExitTx(s)
            /\ UNCHANGED <<rcvd, held, gotStop>>
    /\ UNCHANGED <<mainPc, cfgVars, stalled, produced, outDone, sentOk,
                   oneVars, handlerVars, sigVars>>

\* Collector (4.2) folds the fragment into a session that is not complete
\* yet: nothing is emitted for it.
CollectorFold ==
    /\ stPc[collector] = "proc"
    /\ stalled # collector
    /\ stPc' = [stPc EXCEPT ![collector] = "recv"]
    /\ held' = [held EXCEPT ![collector] = Stop]
    /\ UNCHANGED <<mainPc, cfgVars, gotStop, stalled, produced, outDone,
                   chanVars, oneVars, handlerVars, sigVars>>

\* Collector, Processor, Inference (4.2-4.4): the result of processing the
\* held message is sent downstream; the send suspends while the channel is
\* full (5), and a failed send is local to that message (7).
StageEmit(s) ==
    /\ s \in {collector, processor, inference}
    /\ stPc[s] = "proc"
    /\ stalled # s
    /\ SendReady(s)
    /\ chan' = AfterSend(chan, s, held[s])
    /\ sentOk' = AfterSend(sentOk, s, held[s])
    /\ stPc' = [stPc EXCEPT ![s] = "recv"]
    /\ held' = [held EXCEPT ![s] = Stop]
    /\ UNCHANGED <<mainPc, cfgVars, gotStop, stalled, produced, outDone,
                   rxAlive, senders, rcvd, oneVars, handlerVars, sigVars>>

\* Output (4.5): the stored result is written to the sink.
OutputWrite ==
    /\ stPc[output] = "proc"
    /\ stalled # output
    /\ outDone' = outDone \cup {held[output]}
    /\ stPc' = [stPc EXCEPT ![output] = "recv"]
    /\ held' = [held EXCEPT ![output] = Stop]
    /\ UNCHANGED <<mainPc, cfgVars, gotStop, stalled, produced, chanVars,
                   oneVars, handlerVars, sigVars>>

\* A stage that observed its stop forwards one Stop downstream (Output is
\* terminal and forwards nothing) and exits (4.1, 4.6).
StageFwdStop(s) ==
    /\ stPc[s] = "fwdStop"
    /\ stalled # s
    /\ s # output => SendReady(s)
    /\ chan' = ExitChan(IF s # output THEN AfterSend(chan, s, Stop) ELSE chan, s)
    /\ sentOk' = IF s # output THEN AfterSend(sentOk, s, Stop) ELSE sentOk
    /\ rxAlive' = ExitRx(s)
    /\ senders' = ExitTx(s)
    /\ rx_stop' = IF s = input THEN FALSE ELSE rx_stop
    /\ stPc' = [stPc EXCEPT ![s] = "exited"]
    /\ UNCHANGED <<mainPc, cfgVars, held, gotStop, stalled, produced, outDone,
                   rcvd, oneShot, handlerVars, sigVars>>

\* A downstream stage stops consuming its input channel after the trigger,
\* while that channel is full (7, shutdown-time failure: a stage stalled
\* mid-drain).
Stall(s) ==
    /\ stalled = 0
    /\ trigCount > 0
    /\ stPc[s] \in {"recv", "proc", "fwdStop"}
    /\ Len(chan[s - 1]) = Capacity
    /\ stalled' = s
    /\ UNCHANGED <<mainPc, cfgVars, stPc, held, gotStop, produced, outDone,
                   chanVars, oneVars, handlerVars, sigVars>>

\* ----------------------------------------------------------- Config::peers

\* self.core.read() can return: no writer holds the lock (config.rs:46).
CanRead(l) == ~l.writer

\* Variant of LockRead that takes the lock for writing.
LockReadAsWrite(l) == [l EXCEPT !.writer = TRUE]

\* self.core.read().unwrap(): one more shared guard (config.rs:46).
LockRead(l) == [l EXCEPT !.readers = @ + 1]

\* The guard c goes out of scope when peers returns (config.rs:48).
UnlockRead(l) == [l EXCEPT !.readers = @ - 1]

\* c.peers().clone(): a new vector with the same endpoints (config.rs:47).
PeersClone(v) == [i \in 1..Len(v) |-> v[i]]

\* The core's list after a call of peers: read through a shared reference,
\* it is what it was (config.rs:45-47).
CoreAfterPeers(v) == v

\* A stage calls cfg.peers() and gets the read guard (config.rs:45-46).
PeersLock(s) ==
    /\ stPc[s] \in {"recv", "proc", "fwdStop"}
    /\ stageCfg[s] = cfg_inst
    /\ peersPc[s] = "idle"
    /\ CanRead(rwLock)
    /\ rwLock' = LockRead(rwLock)
    /\ peersPc' = [peersPc EXCEPT ![s] = "reading"]
    /\ UNCHANGED <<mainPc, cfgCount, cfg_inst, loggerCfg, stageCfg, cfgFile,
                   corePeers, peersRes, stageVars, chanVars, oneVars,
                   handlerVars, sigVars>>

\* The call returns the copy and releases the guard (config.rs:47-48).
PeersReturn(s) ==
    /\ peersPc[s] = "reading"
    /\ peersRes' = [peersRes EXCEPT ![s] = @ \cup {PeersClone(corePeers)}]
    /\ corePeers' = CoreAfterPeers(corePeers)
    /\ rwLock' = UnlockRead(rwLock)
    /\ peersPc' = [peersPc EXCEPT ![s] = "idle"]
    /\ UNCHANGED <<mainPc, cfgCount, cfg_inst, loggerCfg, stageCfg, cfgFile,
                   stageVars, chanVars, oneVars, handlerVars, sigVars>>

\* ------------------------------------------------------- the specification

MainStep ==
    \/ MainConfig
    \/ MainLogger
    \/ MainChannels
    \/ \E s \in Stages : MainLaunch(s)
    \/ MainSpawn
    \/ MainReturn

HandlerStep ==
    \/ HandlerWake
    \/ HandlerStopInput
    \/ HandlerSend

StageStep(s) ==
    \/ s = input /\ InputEmit
    \/ s = input /\ InputStop
    \/ s \in Downstream /\ StageRecv(s)
    \/ s = collector /\ CollectorFold
    \/ StageEmit(s)
    \/ s = output /\ OutputWrite
    \/ StageFwdStop(s)

Next ==
    \/ MainStep
    \/ Trigger
    \/ HandlerStep
    \/ \E s \in Stages : StageStep(s)

Spec == Init /\ [][Next]_vars

\* The same program, with the record of what was queued at the first trigger.
NextSnap ==
    \/ MainStep
    \/ TriggerSnap
    \/ HandlerStep
    \/ \E s \in Stages : StageStep(s)

SnapSpec == Init /\ [][NextSnap]_vars

\* The runtime schedules every task that can run; the operator and a stall
\* are not obliged to happen.
Fairness ==
    /\ WF_vars(MainStep)
    /\ WF_vars(HandlerStep)
    /\ \A s \in Stages : WF_vars(StageStep(s))

NextStall ==
    \/ Next
    \/ \E s \in Downstream : Stall(s)

StallSpec == Init /\ [][NextStall]_vars /\ Fairness

\* Start-up of the program for any configuration file, with the stages
\* calling Config::peers concurrently.
NextCfg ==
    \/ MainConfig
    \/ MainLogger
    \/ MainChannels
    \/ \E s \in Stages : MainLaunch(s)
    \/ MainSpawn
    \/ \E s \in Stages : PeersLock(s)
    \/ \E s \in Stages : PeersReturn(s)

CfgSpec == InitCfg /\ [][NextCfg]_vars

\* ------------------------------------------------------------------ claims

\* Position of the first Stop in a message sequence, 0 when there is none.
FirstStop(q) ==
    IF \E i \in 1..Len(q) : q[i] = Stop
    THEN CHOOSE i \in 1..Len(q) : q[i] = Stop /\ \A j \in 1..(i - 1) : q[j] # Stop
    ELSE 0

\* Number of times the stop handler completed the send named n.
SendCount(n) == Cardinality({i \in 1..Len(hLog) : hLog[i] = n})

\* C1: every payload that was queued between Collector and Output when the
\* operator triggered the shutdown has been written by Output once the
\* process has terminated, and neither Inference nor Output has exited on a
\* Stop while one of those payloads had not yet reached it.
C1_QueuedWorkDrained ==
    /\ mainPc = "done" => queuedAtTrigger \subseteq outDone
    /\ \A s \in {inference, output} :
         stPc[s] = "exited" => queuedAtTrigger \subseteq DataOf(rcvd[s - 1])

\* C2: the stop handler completes its sends in the fixed order tx_stop,
\* tx_frag, tx_sess, tx_smpl, tx_rslt, and the send it is working on is the
\* one that follows the sends already completed.
C2_FixedOrder ==
    /\ Len(hLog) <= Len(StopOrder)
    /\ \A i \in 1..Len(hLog) : hLog[i] = StopOrder[i]
    /\ hPc \in {"tx_stop", "tx_frag", "tx_sess", "tx_smpl", "tx_rslt"}
         => Len(hLog) < Len(StopOrder) /\ hPc = StopOrder[Len(hLog) + 1]

\* C2 witness: the handler has completed all five sends.
C2_Witness == hLog = StopOrder /\ hPc = "done"

\* C3: whatever the number of triggers, the stop handler sends at most once
\* on the oneshot channel and at most once on each inter-stage channel; a
\* trigger after the first is never taken up, and neither the handler nor
\* main panics.
C3_IdempotentShutdown ==
    /\ \A i \in 1..Len(StopOrder) : SendCount(StopOrder[i]) <= 1
    /\ hPc = "done" => sigPending = trigCount - 1
    /\ hPc # "panicked" /\ mainPc # "panicked"

\* C3 witness: a second trigger was delivered and the handler has finished
\* its one shutdown sequence.
C3_Witness == trigCount >= 2 /\ hPc = "done" /\ hLog = StopOrder

\* C4: main has returned only if every stage has exited on its own.
C4_MainWaitsForStages ==
    mainPc = "done" => \A s \in Stages : stPc[s] = "exited"

\* C5: after the trigger every downstream stage receives a Stop marker; once
\* the process has terminated nothing more can be received, so by then
\* Collector, Processor, Inference and Output each have received one.
C5_EveryStageGetsStop ==
    mainPc = "done" => \A s \in Downstream : gotStop[s]

\* C6: a stage that has observed Stop on its input channel has received, in
\* order, every message that was sent on that channel ahead of that Stop,
\* and has finished processing each of them (Output has written them).
C6_DrainBeforeExit ==
    \A s \in Downstream :
      gotStop[s] =>
        /\ FirstStop(sentOk[s - 1]) > 0
        /\ rcvd[s - 1] = SubSeq(sentOk[s - 1], 1, FirstStop(sentOk[s - 1]))
        /\ held[s] = Stop
        /\ s = output => DataOf(rcvd[s - 1]) \subseteq outDone

\* C6 witness: a stage has observed Stop after at least one data message
\* that was buffered ahead of it.
C6_Witness ==
    \E s \in Downstream :
      /\ gotStop[s]
      /\ Len(rcvd[s - 1]) >= 2
      /\ stPc[s] = "exited"

C8_BackpressureNoLoss ==
    \A c \in Channels :
      /\ Len(chan[c]) <= Capacity
      /\ sentOk[c] = rcvd[c] \o chan[c]

\* C9: once the shutdown has been triggered the process eventually exits,
\* also when a stage has stalled on a full input channel.
C9_ShutdownCompletes == (trigCount > 0) ~> (mainPc = "done")

\* C10: the logger and every launched stage hold a handle to the one
\* configuration object main created before them.
C10_ConfigFirst ==
    /\ cfgCount <= 1
    /\ mainPc \notin {"config", "logger"}
         => cfg_inst # NoCfg /\ loggerCfg = cfg_inst
    /\ \A s \in Stages :
         stPc[s] # "none" => cfg_inst # NoCfg /\ stageCfg[s] = cfg_inst

\* C10 witness: the logger and all five stages have been started.
C10_Witness ==
    /\ loggerCfg # NoCfg
    /\ \A s \in Stages : stPc[s] = "recv" /\ stageCfg[s] # NoCfg

\* Number of Stop markers in a message sequence.
StopCount(q) == Cardinality({i \in 1..Len(q) : q[i] = Stop})

\* C11: in no inter-stage channel does a data message sit behind a Stop
\* marker, so that no successfully sent data message is left in a channel
\* whose consumer exits on that Stop.
C11_NoDataBehindStop ==
    \A c \in Channels :
      \A i \in 1..Len(chan[c]) :
        chan[c][i] = Stop => \A j \in (i + 1)..Len(chan[c]) : chan[c][j] = Stop

\* C12 as stated: over the process lifetime at most one Stop marker is sent
\* into each inter-stage channel, by the stop handler and the upstream
\* stage together.
C12_OneStopPerChannel ==
    \A c \in Channels : StopCount(sentOk[c]) <= 1

\* C12 amended: at most two Stop markers are sent into each inter-stage
\* channel, at most one of them by the stop handler, and the consumer of
\* the channel receives at most one Stop.
C12_TwoStopsPerChannel ==
    \A c \in Channels :
      /\ StopCount(sentOk[c]) <= 2
      /\ SendCount(StopOrder[c + 1]) <= 1
      /\ StopCount(rcvd[c]) <= 1

\* C12 witness: the Session channel was sent the handler's Stop and the
\* Stop forwarded by Collector.
C12_Witness ==
    /\ StopCount(sentOk[tx_sess]) = 2
    /\ SendCount("tx_sess") = 1
    /\ stPc[collector] = "exited"

\* C13: from the creation of the channels until the stop handler has
\* sent on a channel, the handler's sender of that channel is alive, and it
\* keeps all four mpsc senders until its task ends; so no channel is closed
\* on the sender side by the exit of an upstream stage alone.
C13_SendersHeld ==
    /\ (mainPc \notin {"config", "logger", "channels"} /\ hPc # "done")
         => \A c \in Channels : "coord" \in senders[c]
    /\ (mainPc \notin {"config", "logger", "channels"}
          /\ hPc \in {"none", "wait", "tx_stop"})
         => oneShot = "open"

\* C13 witness: Input has exited and dropped its sender while the handler is
\* still running; the Fragment channel is kept open by the handler alone.
C13_Witness ==
    /\ stPc[input] = "exited"
    /\ hPc \in {"tx_frag", "tx_sess", "tx_smpl", "tx_rslt"}
    /\ senders[tx_frag] = {"coord"}
    /\ rxAlive[tx_frag]

Launched(s) == stPc[s] # "none"

\* C15: the stages are launched in the order input, collector, processor,
\* inference, output, one launch at a time; the stop handler exists, a
\* SIGINT is taken, and a stop request or Stop marker is sent only once
\* all five have been launched.
C15_LaunchBeforeListen ==
    /\ \A s \in Stages : Launched(s) => \A r \in 1..(s - 1) : Launched(r)
    /\ \A s \in Stages :
         mainPc = <<"launchInput", "launchCollector", "launchProcessor",
                    "launchInference", "launchOutput">>[s] =>
         /\ \A r \in 1..(s - 1) : Launched(r)
         /\ \A r \in s..5 : ~Launched(r)
    /\ (hPc # "none" \/ trigCount > 0 \/ hLog # <<>> \/ oneShot = "sent"
          \/ \E c \in Channels : StopCount(sentOk[c]) > 0)
         => \A s \in Stages : Launched(s)

\* C15 witness: the handler is listening, with all five stages launched.
C15_Witness == hPc = "wait" /\ \A s \in Stages : Launched(s)

====
